---- MODULE Spec2Model ----
(***************************************************************************)
(* Turn orchestration of the Lite Agent chat client.                       *)
(*                                                                         *)
(* Two services are modelled:                                              *)
(*  - the CLI-core GeminiService (src/unnamed/part_003): send / stop /     *)
(*    restart / authorize and the asynchronous steps of the turn loop;     *)
(*  - the direct Code Assist GeminiService                                 *)
(*    (src/src/extension/GeminiService.ts, second class): send / restart   *)
(*    and the conversation history it keeps.                               *)
(*                                                                         *)
(* Every `await` of the source is a step boundary: one action runs the     *)
(* synchronous code from one suspension point to the next.                 *)
(***************************************************************************)
EXTENDS Integers, Sequences, FiniteSets, TLC

\* ------------------------------------------------------------------ bounds
MaxSends == 2        \* send() invocations that start a turn
MaxRounds == 1       \* turns of one send in which the model asks for tools
MaxBatch == 2        \* tool calls the model queues in one turn
MaxStarting == 1     \* start() invocations in flight at once
MaxDirect == 2       \* send() invocations of the direct service that reach an await
MaxRetries == 3      \* largest retry budget given to _fetchWithRetry

\* The hard ceiling of the turn loop: `if (turnCount > 20)`.
TURN_CAP == 20

\* The direct service's loop bound: `const MAX_TURNS = 5`.
MAX_TURNS == 5

\* _fetchWithRetry(url, options, retries = 3, backoff = 2000)
DEFAULT_RETRIES == 3
DEFAULT_BACKOFF == 2000
RATE_LIMITED == 429

Tools == {"read", "shell"}
NoTool == "undefined"                    \* authorize() called without toolName
Decisions == {"once", "session", "deny"}

\* Prompts given to send(): plain text, the slash commands the service knows,
\* one in another spelling, and a slash-prefixed prompt it does not know.
Prompts == {"hello", "/mcp", "/MCP list", "/tools", "/debug", "/agents", "/skills",
            "/clear", "/restart", "/status", "/log", "/help", "/foo"}

\* `parts[0].substring(1).toLowerCase()` of the trimmed prompt; "" when the
\* prompt does not start with a slash.
PromptCommand(p) ==
    CASE p = "hello" -> ""
      [] p = "/mcp" -> "mcp"
      [] p = "/MCP list" -> "mcp"
      [] p = "/tools" -> "tools"
      [] p = "/debug" -> "debug"
      [] p = "/agents" -> "agents"
      [] p = "/skills" -> "skills"
      [] p = "/clear" -> "clear"
      [] p = "/restart" -> "restart"
      [] p = "/status" -> "status"
      [] p = "/log" -> "log"
      [] p = "/help" -> "help"
      [] p = "/foo" -> "foo"
      [] p = "/mcp list" -> "mcp"
      [] p = "/MCP" -> "mcp"
      [] p = "/CLEAR" -> "clear"
      [] p = "/Status" -> "status"

\* Commands answered by the service itself, and commands forwarded to the
\* host as a slashCommand event.
LocalCommands == {"mcp", "tools", "debug", "agents", "skills"}
PanelCommands == {"clear", "restart", "status", "log", "help"}

\* Mutant: no slash command is recognised.
HandleNothing(p) == FALSE

\* _handleCommand(prompt): TRUE when the prompt was handled locally.
HandleCommand(p) == PromptCommand(p) \in LocalCommands \cup PanelCommands

SendIds == 1..MaxSends
DirectIds == 1..MaxDirect

Min(S) == CHOOSE x \in S : \A y \in S : x <= y

\* --------------------------------------------------------------- variables
VARIABLES
    processing,            \* _processing
    ready,                 \* _ready (and _geminiClient, _scheduler non-null)
    abortController,       \* _abortController: 0 = null, else the send that created it
    approvedTools,         \* _approvedTools
    pendingAuthorization,  \* _pendingAuthorization: 0 = null, else the send whose promise it settles
    starting,              \* start() invocations in flight
    nSends,                \* sends that started a turn so far
    sends,                 \* locals of each send() invocation, see IdleSend
    grantedSession,        \* names given to authorize('session', name) since the last restart
    \* the direct Code Assist service
    isProcessing,          \* _isProcessing
    initialized,           \* _initialized
    initializing,          \* start() invocations in flight that are not awaited by a send
    history,               \* _history; each entry carries the send that pushed it
    nDirect,               \* direct sends that suspended at an await so far
    dsends,                \* locals of each send() invocation, see IdleDirect
    interrupted,           \* sends that were in flight when restart() was called
    \* one call of _fetchWithRetry
    fetchIn,               \* what the server answers to the successive attempts, and the budget
    fetchOut,              \* how the call ended, see NoResult
    \* one run of the SSE decode loop of the direct service's send
    decFrames,             \* the lines the server sends, each followed by a newline
    decRest,               \* what reader.read() has not delivered yet
    decBuf,                \* buffer
    decOut,                \* text deltas emitted, toolCall, whether the loop failed
    decDone,               \* reader.read() returned done
    \* the McpClient (tool directory) of the direct service
    mcpClients,            \* keys of _clients
    mcpTools,              \* _tools: tool name -> the server whose registration is kept
    mcpNext,               \* position of start() in the list of configured servers
    mcpAlive,              \* servers whose connection is alive
    mcpFirst,              \* tool name -> the server that registered it first
    mcpLast,               \* the last callTool: what it was asked and how it ended
    mcpCalls,              \* callTool invocations so far
    \* a slash command on its way between the panel and the service
    slash

svcVars == <<processing, ready, abortController, approvedTools,
             pendingAuthorization, starting, nSends, sends, grantedSession>>

directVars == <<isProcessing, initialized, initializing, history, nDirect, dsends, interrupted>>

retryVars == <<fetchIn, fetchOut>>

decodeVars == <<decFrames, decRest, decBuf, decOut, decDone>>

\* The variables of the helper functions checked on their own.
mcpVars == <<mcpClients, mcpTools, mcpNext, mcpAlive, mcpFirst, mcpLast, mcpCalls>>

slashVars == <<slash>>

pureVars == <<retryVars, decodeVars, mcpVars, slashVars>>

vars == <<svcVars, directVars, pureVars>>

\* Locals of a send() invocation that has not been called yet.
IdleSend ==
    [ pc |-> "idle",            \* idle, getHistory, streaming, awaitAuth, scheduling, recording, done
      aborted |-> FALSE,        \* signal.aborted
      turnCount |-> 0,
      toolCallRequests |-> <<>>,
      received |-> <<>>,        \* the ToolCallRequest events the stream of this turn delivered
      dispatched |-> <<>>,      \* the batch handed to this._scheduler.schedule
      toolResponseParts |-> <<>>,
      authIdx |-> 0,            \* position in toolCalls of the call awaiting a decision
      promise |-> "none",       \* none, pending, resolved, rejected
      remoteCalls |-> 0,        \* sendMessageStream calls made
      cleared |-> {},           \* positions of the batch that passed the gate
      authReqs |-> 0,           \* requestAuthorization events emitted in the current turn
      denied |-> FALSE,         \* a deny decision settled this send's promise
      notice |-> "none",        \* last notice put on the data channel
      rc |-> 0 ]                \* responseComplete events emitted

\* Locals of a send() invocation of the direct service.
NoCall == "null"
IdleDirect ==
    [ pc |-> "idle",            \* idle, init, token, fetch, read, tool, done
      turns |-> 0,
      fullText |-> FALSE,       \* fullText is non-empty
      toolCall |-> NoCall,
      fetches |-> 0,            \* _fetchWithRetry calls made
      rc |-> 0 ]                \* responseComplete events emitted

\* ------------------------------------------------------- the turn loop
\* The result of running a send's synchronous code up to its next suspension
\* point: its locals, whether the finally block ran, whether it registered
\* _pendingAuthorization.
Suspend(l) == [send |-> l, fin |-> FALSE, pend |-> FALSE]

\* Mutant: the finally block leaves _processing and _abortController alone.
FinallyKeepsProcessing(l) ==
    [send |-> [l EXCEPT !.pc = "done", !.rc = @ + 1,
                        !.turnCount = 0, !.toolCallRequests = <<>>,
                        !.authIdx = 0, !.promise = "none", !.cleared = {}],
     fin |-> FALSE, pend |-> FALSE]

\* finally { _processing = false; _abortController = null; emit('responseComplete') }
\* The invocation returns: its locals are gone, what it emitted stays.
Finally(l) ==
    [send |-> [l EXCEPT !.pc = "done", !.rc = @ + 1,
                        !.turnCount = 0, !.toolCallRequests = <<>>,
                        !.received = <<>>, !.dispatched = <<>>,
                        !.toolResponseParts = <<>>,
                        !.authIdx = 0, !.promise = "none", !.cleared = {}],
     fin |-> TRUE, pend |-> FALSE]

\* A `break` out of the while loop after emitting `note` on the data channel.
Break(l, note) == Finally([l EXCEPT !.notice = note])

\* Mutant: the catch block emits responseComplete itself, before finally does.
CatchEmitsComplete(l) ==
    IF l.aborted THEN Break([l EXCEPT !.rc = @ + 1], "stopped")
    ELSE Break([l EXCEPT !.rc = @ + 1], "error")

\* catch (e) { if (signal.aborted) stopped notice else error notice }
Catch(l) == IF l.aborted THEN Break(l, "stopped") ELSE Break(l, "error")

\* Mutant: the top of the loop does not look at the signal.
LoopTopIgnoresAbort(l, cap) ==
    LET l1 == [l EXCEPT !.turnCount = @ + 1] IN
    IF l1.turnCount > cap THEN Break(l1, "maxTurns")
    ELSE IF ~ready THEN Catch(l1)
    ELSE Suspend([l1 EXCEPT !.pc = "streaming",
                            !.toolCallRequests = <<>>,
                            !.received = <<>>,
                            !.dispatched = <<>>,
                            !.toolResponseParts = <<>>,
                            !.cleared = {},
                            !.authIdx = 0,
                            !.authReqs = 0,
                            !.remoteCalls = @ + 1])

\* Top of while(true) with ceiling `cap`: count the turn, stop at the ceiling
\* or on abort, else start the next remote call.
LoopTopWithCap(l, cap) ==
    LET l1 == [l EXCEPT !.turnCount = @ + 1] IN
    IF l1.turnCount > cap THEN Break(l1, "maxTurns")
    ELSE IF l1.aborted THEN Break(l1, "stopped")
    ELSE IF ~ready THEN Catch(l1)      \* this._geminiClient is null
    ELSE Suspend([l1 EXCEPT !.pc = "streaming",
                            !.toolCallRequests = <<>>,
                            !.received = <<>>,
                            !.dispatched = <<>>,
                            !.toolResponseParts = <<>>,
                            !.cleared = {},
                            !.authIdx = 0,
                            !.authReqs = 0,
                            !.remoteCalls = @ + 1])

\* Mutant: the ceiling is tested one turn late.
LoopTopOffByOne(l) == LoopTopWithCap(l, TURN_CAP + 1)

\* Top of while(true): `if (turnCount > 20)`.
LoopTop(l) == LoopTopWithCap(l, TURN_CAP)

\* Mutant: a batch whose send was stopped is neither dispatched nor ended.
DispatchParksAborted(l) ==
    IF l.aborted THEN Suspend(l)
    ELSE IF ~ready THEN Catch(l)
    ELSE Suspend([l EXCEPT !.pc = "scheduling", !.dispatched = l.toolCallRequests])

\* Mutant: the batch is handed over without looking at the signal.
DispatchIgnoresAbort(l) ==
    IF ~ready THEN Catch(l)
    ELSE Suspend([l EXCEPT !.pc = "scheduling", !.dispatched = l.toolCallRequests])

\* After _checkToolAuthorization returned: hand the batch to the scheduler.
Dispatch(l) ==
    IF l.aborted THEN Finally(l)
    ELSE IF ~ready THEN Catch(l)       \* this._scheduler is null
    ELSE Suspend([l EXCEPT !.pc = "scheduling", !.dispatched = l.toolCallRequests])

\* Mutant: only the first call of the batch is checked.
CheckFirstOnly(l, from, approved) ==
    IF from > 1 \/ l.toolCallRequests[1] \in approved
    THEN Dispatch([l EXCEPT !.cleared = @ \cup (IF from > 1 THEN {} ELSE {1}),
                            !.promise = "none"])
    ELSE [send |-> [l EXCEPT !.pc = "awaitAuth",
                             !.authIdx = 1,
                             !.promise = "pending",
                             !.authReqs = @ + 1],
          fin |-> FALSE, pend |-> TRUE]

\* Mutant: the request is emitted for the last unapproved call of the batch.
CheckLastUnapprovedFirst(l, from, approved) ==
    LET calls == l.toolCallRequests
        unapproved == {i \in from..Len(calls) : calls[i] \notin approved}
    IN IF unapproved = {}
       THEN Dispatch([l EXCEPT !.cleared = @ \cup (from..Len(calls)),
                               !.promise = "none"])
       ELSE LET i == CHOOSE j \in unapproved : \A k \in unapproved : k <= j IN
            [send |-> [l EXCEPT !.pc = "awaitAuth",
                                !.authIdx = i,
                                !.promise = "pending",
                                !.authReqs = @ + 1,
                                !.cleared = @ \cup (from..(i - 1))],
             fin |-> FALSE, pend |-> TRUE]

\* _checkToolAuthorization, resumed at position `from` of the batch, reading
\* the approved set `approved`.
CheckToolAuthorization(l, from, approved) ==
    LET calls == l.toolCallRequests
        unapproved == {i \in from..Len(calls) : calls[i] \notin approved}
    IN IF unapproved = {}
       THEN Dispatch([l EXCEPT !.cleared = @ \cup (from..Len(calls)),
                               !.promise = "none"])
       ELSE LET i == Min(unapproved) IN
            [send |-> [l EXCEPT !.pc = "awaitAuth",
                                !.authIdx = i,
                                !.promise = "pending",
                                !.authReqs = @ + 1,
                                !.cleared = @ \cup (from..(i - 1))],
             fin |-> FALSE, pend |-> TRUE]

\* Mutant: the gate is consulted without the approved set.
AfterStreamForgetsApproved(l) ==
    IF l.aborted
    THEN IF l.toolCallRequests = <<>> THEN Break(l, "stopped") ELSE Finally(l)
    ELSE IF l.toolCallRequests # <<>>
         THEN CheckToolAuthorization(l, 1, {})
         ELSE Finally(l)

\* After the for-await loop over the response stream.
AfterStream(l) ==
    IF l.aborted
    THEN IF l.toolCallRequests = <<>> THEN Break(l, "stopped") ELSE Finally(l)
    ELSE IF l.toolCallRequests # <<>>
         THEN CheckToolAuthorization(l, 1, approvedTools)
         ELSE Finally(l)

\* Write back the result of a step of send t.
Commit(t, out) ==
    /\ sends' = [sends EXCEPT ![t] = out.send]
    /\ processing' = IF out.fin THEN FALSE ELSE processing
    /\ abortController' = IF out.fin THEN 0 ELSE abortController
    /\ pendingAuthorization' = IF out.pend THEN t ELSE pendingAuthorization
    /\ UNCHANGED <<ready, approvedTools, starting, nSends, grantedSession, directVars, pureVars>>

\* ------------------------------------------------------------- operations
InitService ==
    /\ processing = FALSE
    /\ ready = FALSE
    /\ abortController = 0
    /\ approvedTools = {}
    /\ pendingAuthorization = 0
    /\ starting = 0
    /\ nSends = 0
    /\ sends = [t \in SendIds |-> IdleSend]
    /\ grantedSession = {}

\* The direct service after construction.
InitDirect ==
    /\ isProcessing = FALSE
    /\ initialized = FALSE
    /\ initializing = 0
    /\ history = <<>>
    /\ nDirect = 0
    /\ dsends = [t \in DirectIds |-> IdleDirect]
    /\ interrupted = {}

\* No call of _fetchWithRetry has been made.
NoResult == [kind |-> "none", status |-> 0, attempts |-> 0, waits |-> <<>>]

InitRetry ==
    /\ fetchIn = [resps |-> <<>>, retries |-> 0]
    /\ fetchOut = NoResult

\* What the decode loop has produced before its first read.
NoOutput == [text |-> <<>>, toolCall |-> NoCall, failed |-> FALSE]

\* No response body is being decoded.
InitDecode ==
    /\ decFrames = <<>>
    /\ decRest = <<>>
    /\ decBuf = <<>>
    /\ decOut = NoOutput
    /\ decDone = TRUE

\* The servers of the configuration, in the order start() goes through them.
Servers == <<"s1", "s2">>
NoServer == "none"

\* No callTool has been made.
NoToolCall == [name |-> NoTool, kind |-> "none", to |-> NoServer, alive |-> FALSE]

\* The McpClient after construction.
InitMcp ==
    /\ mcpClients = {}
    /\ mcpTools = [n \in Tools |-> NoServer]
    /\ mcpNext = 1
    /\ mcpAlive = {}
    /\ mcpFirst = [n \in Tools |-> NoServer]
    /\ mcpLast = NoToolCall
    /\ mcpCalls = 0

\* A slash command as the webview posts it: `parts[0].slice(1)` and the rest.
Typed(c, a) == [command |-> c, args |-> a]

\* No slash command is under way.
IdleSlash ==
    [at |-> "idle", typed |-> Typed("", ""), command |-> "", args |-> "",
     busy |-> FALSE, isReady |-> FALSE, toService |-> 0, toPanel |-> 0,
     modelSends |-> 0, outcome |-> "none"]

InitSlash == slash = IdleSlash

Init == InitService /\ InitDirect /\ InitRetry /\ InitDecode /\ InitMcp /\ InitSlash

\* start(): the host begins (re-)initialisation.
Start ==
    /\ starting < MaxStarting
    /\ starting' = starting + 1
    /\ UNCHANGED <<processing, ready, abortController, approvedTools,
                   pendingAuthorization, nSends, sends, grantedSession, directVars, pureVars>>

\* start() reaches `this._ready = true`.
StartDone ==
    /\ starting > 0
    /\ starting' = starting - 1
    /\ ready' = TRUE
    /\ UNCHANGED <<processing, abortController, approvedTools,
                   pendingAuthorization, nSends, sends, grantedSession, directVars, pureVars>>

\* start() fails (authentication or initialisation error).
StartFail ==
    /\ starting > 0
    /\ starting' = starting - 1
    /\ UNCHANGED <<processing, ready, abortController, approvedTools,
                   pendingAuthorization, nSends, sends, grantedSession, directVars, pureVars>>

\* `await this._geminiClient.getHistory()` returns (or throws, which is
\* caught and logged): the loop is entered.
GetHistoryDone(t) ==
    /\ sends[t].pc = "getHistory"
    /\ Commit(t, LoopTop(sends[t]))

\* The response stream yields a Content fragment.
StreamContent(t) ==
    /\ sends[t].pc = "streaming"
    /\ IF sends[t].aborted
       THEN Commit(t, AfterStream(sends[t]))
       ELSE UNCHANGED vars       \* emit('data', event.value)

\* Mutant: a new request goes to the head of the queue.
QueuePrepends(q, n) == <<n>> \o q

\* toolCallRequests.push(event.value)
Queue(q, n) == Append(q, n)

\* Mutant: a ToolCallRequest fragment is queued whether or not the signal is aborted.
StreamToolCallIgnoresAbort(t, n, maxRounds) ==
    /\ sends[t].pc = "streaming"
    /\ sends[t].turnCount <= maxRounds
    /\ Len(sends[t].toolCallRequests) < MaxBatch
    /\ Commit(t, Suspend([sends[t] EXCEPT !.toolCallRequests = Queue(@, n),
                                                   !.received = Append(@, n)]))

\* The response stream yields a ToolCallRequest fragment for tool n.
StreamToolCall(t, n, maxRounds) ==
    /\ sends[t].pc = "streaming"
    /\ IF sends[t].aborted
       THEN Commit(t, AfterStream(sends[t]))
       ELSE /\ sends[t].turnCount <= maxRounds
            /\ Len(sends[t].toolCallRequests) < MaxBatch
            /\ Commit(t, Suspend([sends[t] EXCEPT !.toolCallRequests = Queue(@, n),
                                                   !.received = Append(@, n)]))

\* The response stream yields an Error or LoopDetected fragment: a notice is
\* emitted and the switch statement is left; the stream is read on.
StreamError(t) ==
    /\ sends[t].pc = "streaming"
    /\ IF sends[t].aborted
       THEN Commit(t, AfterStream(sends[t]))
       ELSE /\ sends[t].notice # "streamError"
            /\ Commit(t, Suspend([sends[t] EXCEPT !.notice = "streamError"]))

\* The response stream ends.
StreamEnd(t) ==
    /\ sends[t].pc = "streaming"
    /\ Commit(t, AfterStream(sends[t]))

\* Reading the response stream throws.
StreamThrow(t) ==
    /\ sends[t].pc = "streaming"
    /\ Commit(t, Catch(sends[t]))

\* Mutant: a deny decision resolves the promise like the approving ones.
SettleAlwaysResolves(d) == "resolved"

\* How authorize settles the pending promise: reject on deny (the resolve
\* that follows is a no-op on a settled promise), resolve otherwise.
Settle(d) == IF d = "deny" THEN "rejected" ELSE "resolved"

\* Mutant: a 'session' decision is not remembered.
ApproveNever(d, n, approved) == approved

\* Mutant: every approving decision is remembered, 'once' included.
ApproveAlways(d, n, approved) ==
    IF d # "deny" /\ n # NoTool THEN approved \cup {n} ELSE approved

\* _approvedTools after authorize(d, n) found a pending authorization.
Approve(d, n, approved) ==
    IF d = "session" /\ n # NoTool THEN approved \cup {n} ELSE approved

\* authorize(decision, toolName)
Authorize(d, n) ==
    IF pendingAuthorization = 0 THEN UNCHANGED vars
    ELSE LET t == pendingAuthorization IN
        /\ approvedTools' = Approve(d, n, approvedTools)
        /\ grantedSession' = IF d = "session" /\ n # NoTool
                             THEN grantedSession \cup {n} ELSE grantedSession
        /\ sends' = [sends EXCEPT
                       ![t].promise = Settle(d),
                       ![t].denied = (d = "deny"),
                       ![t].cleared = IF d = "deny" THEN @ ELSE @ \cup {sends[t].authIdx}]
        /\ pendingAuthorization' = 0
        /\ UNCHANGED <<processing, ready, abortController, starting, nSends, directVars, pureVars>>

\* `await promise` in _checkToolAuthorization continues after a decision.
AuthResume(t) ==
    /\ sends[t].pc = "awaitAuth"
    /\ sends[t].promise \in {"resolved", "rejected"}
    /\ IF sends[t].promise = "rejected"
       THEN Commit(t, Break([sends[t] EXCEPT !.promise = "none"], "denied"))
       ELSE Commit(t, CheckToolAuthorization(sends[t], sends[t].authIdx + 1, approvedTools))

\* The completed calls the scheduler returns for a batch: one per request, in
\* the order of the requests, each with the response part of its tool.
Schedule(batch) ==
    [i \in 1..Len(batch) |-> [request |-> batch[i],
                              responseParts |-> <<[functionResponse |-> batch[i]]>>]]

RECURSIVE CollectParts(_)
\* `for (const completed of completedToolCalls) toolResponseParts.push(...)`
CollectParts(completed) ==
    IF completed = <<>> THEN <<>>
    ELSE completed[1].responseParts \o CollectParts(Tail(completed))

\* `currentParts = toolResponseParts`: what the next sendMessageStream carries.
CurrentParts(l) == l.toolResponseParts

\* `await this._scheduler.schedule(...)` returns the completed tool calls.
ScheduleDone(t) ==
    /\ sends[t].pc = "scheduling"
    /\ Commit(t, Suspend([sends[t] EXCEPT !.pc = "recording",
                                          !.toolResponseParts = CollectParts(Schedule(sends[t].dispatched))]))

\* `await this._scheduler.schedule(...)` throws.
ScheduleThrow(t) ==
    /\ sends[t].pc = "scheduling"
    /\ Commit(t, Catch(sends[t]))

\* `await recordToolCallInteractions(...)` is over; a tool may have asked to
\* stop (STOP_EXECUTION), else the tool responses go to the next turn.
RecordDone(t, stopTool) ==
    /\ sends[t].pc = "recording"
    /\ Commit(t, IF stopTool THEN Finally(sends[t]) ELSE LoopTop(sends[t]))

\* stop()
Stop ==
    IF abortController = 0 THEN UNCHANGED vars
    ELSE /\ sends' = [sends EXCEPT ![abortController].aborted = TRUE]
         /\ abortController' = 0
         /\ UNCHANGED <<processing, ready, approvedTools, pendingAuthorization,
                        starting, nSends, grantedSession, directVars, pureVars>>

\* restart()
Restart ==
    /\ starting < MaxStarting
    /\ ready' = FALSE
    /\ processing' = FALSE
    /\ sends' = IF abortController = 0 THEN sends
                ELSE [sends EXCEPT ![abortController].aborted = TRUE]
    /\ abortController' = 0
    /\ starting' = starting + 1
    /\ grantedSession' = {}
    /\ UNCHANGED <<approvedTools, pendingAuthorization, nSends, directVars, pureVars>>

\* Mutant: a send is not refused while a turn is being processed.
SendOutcomeIgnoresBusy(p, busy, isReady) ==
    IF ~isReady THEN "notReady"
    ELSE IF HandleCommand(p) THEN "local"
    ELSE "turn"

\* Mutant: the readiness of the service is not looked at.
SendOutcomeSkipsReady(p, busy, isReady) ==
    IF busy THEN "busy"
    ELSE IF HandleCommand(p) THEN "local"
    ELSE "turn"

\* Which way send(prompt) goes, from the guards at its top: ignored (Busy),
\* refused with an error event (NotReady), handled as a local command, or
\* starting a turn.
SendOutcome(p, busy, isReady) ==
    IF busy THEN "busy"
    ELSE IF ~isReady THEN "notReady"
    ELSE IF HandleCommand(p) THEN "local"
    ELSE "turn"

\* send(prompt), up to its first await.  A send that is rejected (Busy,
\* NotReady) changes no field of the service, and neither does a local
\* command; /clear and /restart are forwarded as a slashCommand event, on
\* which the panel calls restart() and the web server does nothing.
Send(p, maxSends) ==
    LET outcome == SendOutcome(p, processing, ready) IN
    IF outcome \in {"busy", "notReady"} THEN UNCHANGED vars
    ELSE IF outcome = "local"
    THEN IF PromptCommand(p) \in {"clear", "restart"}
         THEN Restart \/ UNCHANGED vars
         ELSE UNCHANGED vars
    ELSE
        /\ nSends < maxSends
        /\ nSends' = nSends + 1
        /\ processing' = TRUE
        /\ abortController' = nSends + 1
        /\ sends' = [sends EXCEPT ![nSends + 1] = [IdleSend EXCEPT !.pc = "getHistory"]]
        /\ UNCHANGED <<ready, approvedTools, pendingAuthorization, starting, grantedSession, directVars, pureVars>>

\* One prompt of each kind send() tells apart: plain text, a command the
\* service answers itself, a command forwarded to the host, an unknown command.
TurnPrompts == {"hello", "/mcp", "/clear", "/foo"}

Next ==
    \/ Start
    \/ StartDone
    \/ StartFail
    \/ \E p \in TurnPrompts : Send(p, MaxSends)
    \/ \E t \in SendIds : GetHistoryDone(t)
    \/ \E t \in SendIds : StreamContent(t)
    \/ \E t \in SendIds, n \in Tools : StreamToolCall(t, n, MaxRounds)
    \/ \E t \in SendIds : StreamError(t)
    \/ \E t \in SendIds : StreamEnd(t)
    \/ \E t \in SendIds : StreamThrow(t)
    \/ \E d \in Decisions, n \in Tools \cup {NoTool} : Authorize(d, n)
    \/ \E t \in SendIds : AuthResume(t)
    \/ \E t \in SendIds : ScheduleDone(t)
    \/ \E t \in SendIds : ScheduleThrow(t)
    \/ \E t \in SendIds, s \in BOOLEAN : RecordDone(t, s)
    \/ Stop
    \/ Restart

Spec == Init /\ [][Next]_vars

\* One send whose model may ask for tools in every turn, so that the loop
\* runs into its ceiling.
NextCap ==
    \/ Start
    \/ StartDone
    \/ StartFail
    \/ \E p \in Prompts : Send(p, 1)
    \/ \E t \in SendIds : GetHistoryDone(t)
    \/ \E t \in SendIds : StreamContent(t)
    \/ \E t \in SendIds, n \in Tools : StreamToolCall(t, n, TURN_CAP + 1)
    \/ \E t \in SendIds : StreamError(t)
    \/ \E t \in SendIds : StreamEnd(t)
    \/ \E t \in SendIds : StreamThrow(t)
    \/ \E d \in Decisions, n \in Tools \cup {NoTool} : Authorize(d, n)
    \/ \E t \in SendIds : AuthResume(t)
    \/ \E t \in SendIds : ScheduleDone(t)
    \/ \E t \in SendIds : ScheduleThrow(t)
    \/ \E t \in SendIds, s \in BOOLEAN : RecordDone(t, s)
    \/ Stop
    \/ Restart

SpecCap == Init /\ [][NextCap]_vars

\* ------------------------------------- the service in the standalone server
\* The tool name carried by the request a send is suspended on.
AwaitedTool(l) == l.toolCallRequests[l.authIdx]

\* Mutant: the pending authorization is registered after the event is emitted.
PendingAtEmitStale(before, t) == before

\* _pendingAuthorization as a requestAuthorization listener of send t finds
\* it: the promise executor has stored { resolve, reject } before the emit.
PendingAtEmit(before, t) == t

\* Write back the result of a step of send t in the standalone server: when
\* the step emits requestAuthorization, the server's listener calls
\* authorize('session', data.toolName) before emit returns.
ServerCommit(t, out) ==
    IF out.pend /\ PendingAtEmit(pendingAuthorization, t) = t
    THEN LET n == AwaitedTool(out.send) IN
         /\ approvedTools' = Approve("session", n, approvedTools)
         /\ grantedSession' = grantedSession \cup {n}
         /\ sends' = [sends EXCEPT ![t] = [out.send EXCEPT
                                             !.promise = Settle("session"),
                                             !.cleared = @ \cup {out.send.authIdx}]]
         /\ pendingAuthorization' = 0
         /\ UNCHANGED <<processing, ready, abortController, starting, nSends,
                        directVars, pureVars>>
    ELSE Commit(t, out)

\* The response stream ends, in the standalone server.
ServerStreamEnd(t) ==
    /\ sends[t].pc = "streaming"
    /\ ServerCommit(t, AfterStream(sends[t]))

\* `await promise` continues, in the standalone server.
ServerAuthResume(t) ==
    /\ sends[t].pc = "awaitAuth"
    /\ sends[t].promise \in {"resolved", "rejected"}
    /\ IF sends[t].promise = "rejected"
       THEN Commit(t, Break([sends[t] EXCEPT !.promise = "none"], "denied"))
       ELSE ServerCommit(t, CheckToolAuthorization(sends[t], sends[t].authIdx + 1, approvedTools))

\* The standalone server: its messages are sendMessage, stop and restart,
\* and authorize is called by the requestAuthorization listener alone.
NextServer ==
    \/ Start
    \/ StartDone
    \/ StartFail
    \/ \E p \in Prompts : Send(p, MaxSends)
    \/ \E t \in SendIds : GetHistoryDone(t)
    \/ \E t \in SendIds : StreamContent(t)
    \/ \E t \in SendIds, n \in Tools : StreamToolCall(t, n, MaxRounds)
    \/ \E t \in SendIds : StreamError(t)
    \/ \E t \in SendIds : ServerStreamEnd(t)
    \/ \E t \in SendIds : StreamThrow(t)
    \/ \E t \in SendIds : ServerAuthResume(t)
    \/ \E t \in SendIds : ScheduleDone(t)
    \/ \E t \in SendIds : ScheduleThrow(t)
    \/ \E t \in SendIds, s \in BOOLEAN : RecordDone(t, s)
    \/ Stop
    \/ Restart

SpecServer == Init /\ [][NextServer]_vars

\* The steps of a send that need nothing from the user: the awaited calls
\* return (getHistory, the scheduler, recordCompletedToolCalls), the response
\* stream comes to its end, and the continuation of a settled authorization
\* promise runs. A user's send, stop, restart and authorize, and what the
\* stream carries before it ends, are never forced.
Fairness ==
    \A t \in SendIds :
        /\ WF_vars(GetHistoryDone(t))
        /\ WF_vars(StreamEnd(t))
        /\ WF_vars(AuthResume(t))
        /\ WF_vars(ScheduleDone(t))
        /\ WF_vars(\E s \in BOOLEAN : RecordDone(t, s))

SpecLive == Init /\ [][NextCap]_vars /\ Fairness

\* ------------------------------------------- the direct Code Assist service
Entry(kind, t) == [kind |-> kind, by |-> t]

\* A direct send is in flight from `_isProcessing = true` to its finally block.
InFlight(t) == dsends[t].pc \in {"token", "fetch", "read", "tool"}

\* The result of a step of a direct send: its locals, the history, whether
\* the finally block ran, whether the catch block dropped the credentials.
DSuspend(l, h) == [send |-> l, hist |-> h, fin |-> FALSE, deauth |-> FALSE]

\* finally { this._isProcessing = false }; return true
DFinally(l, h, auth) ==
    [send |-> [l EXCEPT !.pc = "done", !.turns = 0, !.fullText = FALSE, !.toolCall = NoCall],
     hist |-> h, fin |-> TRUE, deauth |-> auth]

\* catch (err): the error is emitted, the history is left as it is; a 401 or
\* 403 resets _initialized.
DCatch(l, h, auth) == DFinally(l, h, auth)

\* while (keepGoing && turns < MAX_TURNS) with keepGoing true.
DirectLoop(l, h) ==
    IF l.turns < MAX_TURNS
    THEN DSuspend([l EXCEPT !.turns = @ + 1, !.pc = "token"], h)
    ELSE DFinally(l, h, FALSE)

\* After the read loop: model text and tool call are pushed to _history.
AfterRead(l, h, t) ==
    LET h1 == IF l.fullText THEN Append(h, Entry("text", t)) ELSE h IN
    IF l.toolCall # NoCall
    THEN DSuspend([l EXCEPT !.pc = "tool"], Append(h1, Entry("functionCall", t)))
    ELSE DFinally([l EXCEPT !.rc = @ + 1], h1, FALSE)

DCommit(t, out) ==
    /\ dsends' = [dsends EXCEPT ![t] = out.send]
    /\ history' = out.hist
    /\ isProcessing' = IF out.fin THEN FALSE ELSE isProcessing
    /\ initialized' = IF out.deauth THEN FALSE ELSE initialized
    /\ UNCHANGED <<initializing, nDirect, interrupted, svcVars, pureVars>>

\* _isProcessing = true; the user prompt is pushed; the loop is entered.
Begin(t) ==
    LET out == DirectLoop([IdleDirect EXCEPT !.pc = "begin"], Append(history, Entry("user", t))) IN
    /\ dsends' = [dsends EXCEPT ![t] = out.send]
    /\ history' = out.hist
    /\ isProcessing' = TRUE

\* restart(): clear the history and the processing flag.
DirectRestart ==
    /\ history' = <<>>
    /\ isProcessing' = FALSE
    /\ interrupted' = interrupted \cup {t \in DirectIds : InFlight(t)}
    /\ UNCHANGED <<initialized, initializing, nDirect, dsends, svcVars, pureVars>>

\* start() called by the host.
DirectStart ==
    IF initialized THEN UNCHANGED vars
    ELSE /\ initializing < MaxStarting
         /\ initializing' = initializing + 1
         /\ UNCHANGED <<isProcessing, initialized, history, nDirect, dsends, interrupted, svcVars, pureVars>>

\* A start() in flight completes, with or without success.
DirectStartDone(ok) ==
    /\ initializing > 0
    /\ initializing' = initializing - 1
    /\ initialized' = (ok \/ initialized)
    /\ UNCHANGED <<isProcessing, history, nDirect, dsends, interrupted, svcVars, pureVars>>

\* send(prompt) of the direct service, up to its first await.
DirectSend(p, maxDirect) ==
    IF isProcessing \/ p = "/status" THEN UNCHANGED vars
    ELSE IF p = "/clear" THEN DirectRestart
    ELSE IF p = "/restart" THEN
        /\ history' = <<>>
        /\ isProcessing' = FALSE
        /\ interrupted' = interrupted \cup {t \in DirectIds : InFlight(t)}
        /\ IF initialized THEN UNCHANGED initializing
           ELSE initializing < MaxStarting /\ initializing' = initializing + 1
        /\ UNCHANGED <<initialized, nDirect, dsends, svcVars, pureVars>>
    ELSE
        /\ nDirect < maxDirect
        /\ nDirect' = nDirect + 1
        /\ IF initialized
           THEN Begin(nDirect + 1)
           ELSE /\ dsends' = [dsends EXCEPT ![nDirect + 1] = [IdleDirect EXCEPT !.pc = "init"]]
                /\ UNCHANGED <<history, isProcessing>>
        /\ UNCHANGED <<initialized, initializing, interrupted, svcVars, pureVars>>

\* `await this.start()` inside send returns.
DirectInitDone(t, ok) ==
    /\ dsends[t].pc = "init"
    /\ initialized' = (ok \/ initialized)
    /\ IF initialized'
       THEN Begin(t)
       ELSE /\ dsends' = [dsends EXCEPT ![t].pc = "done"]
            /\ UNCHANGED <<history, isProcessing>>
    /\ UNCHANGED <<initializing, nDirect, interrupted, svcVars, pureVars>>

\* `await this._getAccessToken()` returns: the request is sent.
DirectTokenDone(t) ==
    /\ dsends[t].pc = "token"
    /\ DCommit(t, DSuspend([dsends[t] EXCEPT !.pc = "fetch", !.fetches = @ + 1], history))

\* `await this._getAccessToken()` throws.
DirectTokenThrow(t) ==
    /\ dsends[t].pc = "token"
    /\ DCommit(t, DCatch(dsends[t], history, FALSE))

\* _fetchWithRetry returns an ok response: the body is read.
DirectFetchDone(t) ==
    /\ dsends[t].pc = "fetch"
    /\ DCommit(t, DSuspend([dsends[t] EXCEPT !.pc = "read", !.fullText = FALSE,
                                             !.toolCall = NoCall], history))

\* _fetchWithRetry throws or returns a response that is not ok (auth: 401/403).
DirectFetchFail(t, auth) ==
    /\ dsends[t].pc = "fetch"
    /\ DCommit(t, DCatch(dsends[t], history, auth))

\* A read delivers a frame with a text part.
DirectReadText(t) ==
    /\ dsends[t].pc = "read"
    /\ DCommit(t, DSuspend([dsends[t] EXCEPT !.fullText = TRUE], history))

\* A read delivers a frame with a functionCall part.
DirectReadCall(t, n, maxRounds) ==
    /\ dsends[t].pc = "read"
    /\ dsends[t].turns <= maxRounds
    /\ DCommit(t, DSuspend([dsends[t] EXCEPT !.toolCall = n], history))

\* The response stream is done.
DirectReadDone(t) ==
    /\ dsends[t].pc = "read"
    /\ DCommit(t, AfterRead(dsends[t], history, t))

\* reader.read() throws.
DirectReadThrow(t) ==
    /\ dsends[t].pc = "read"
    /\ DCommit(t, DCatch(dsends[t], history, FALSE))

\* Mutant: a failing tool invocation is thrown into the catch block of send.
ToolResultThrowsOnFailure(l, h, t, failed) ==
    IF failed THEN DCatch(l, h, FALSE)
    ELSE DirectLoop(l, Append(h, Entry("functionResponse", t)))

\* `await this._processToolCall(toolCall)` returns { content } or, when
\* callTool threw, { error }: either is pushed as the function response and
\* the loop goes on (keepGoing = true).
ToolResult(l, h, t, failed) ==
    DirectLoop(l, Append(h, Entry(IF failed THEN "functionResponseError"
                                            ELSE "functionResponse", t)))

\* The tool invocation of a direct send ends, by a result or by a failure.
DirectToolDone(t, failed) ==
    /\ dsends[t].pc = "tool"
    /\ DCommit(t, ToolResult(dsends[t], history, t, failed))

DirectPrompts == {"text", "/clear", "/restart", "/status"}

NextDirect ==
    \/ DirectStart
    \/ \E ok \in BOOLEAN : DirectStartDone(ok)
    \/ \E p \in DirectPrompts : DirectSend(p, MaxDirect)
    \/ \E t \in DirectIds, ok \in BOOLEAN : DirectInitDone(t, ok)
    \/ \E t \in DirectIds : DirectTokenDone(t)
    \/ \E t \in DirectIds : DirectTokenThrow(t)
    \/ \E t \in DirectIds : DirectFetchDone(t)
    \/ \E t \in DirectIds, auth \in BOOLEAN : DirectFetchFail(t, auth)
    \/ \E t \in DirectIds : DirectReadText(t)
    \/ \E t \in DirectIds, n \in Tools : DirectReadCall(t, n, MaxRounds)
    \/ \E t \in DirectIds : DirectReadDone(t)
    \/ \E t \in DirectIds : DirectReadThrow(t)
    \/ \E t \in DirectIds, failed \in BOOLEAN : DirectToolDone(t, failed)
    \/ DirectRestart

SpecDirect == Init /\ [][NextDirect]_vars

\* One direct send whose every turn may end in a tool call, so that the send
\* can use all of its MAX_TURNS turns.
NextDirectCap ==
    \/ DirectStart
    \/ \E ok \in BOOLEAN : DirectStartDone(ok)
    \/ \E p \in DirectPrompts : DirectSend(p, 1)
    \/ \E t \in DirectIds, ok \in BOOLEAN : DirectInitDone(t, ok)
    \/ \E t \in DirectIds : DirectTokenDone(t)
    \/ \E t \in DirectIds : DirectTokenThrow(t)
    \/ \E t \in DirectIds : DirectFetchDone(t)
    \/ \E t \in DirectIds, auth \in BOOLEAN : DirectFetchFail(t, auth)
    \/ \E t \in DirectIds : DirectReadText(t)
    \/ \E t \in DirectIds, n \in Tools : DirectReadCall(t, n, MAX_TURNS)
    \/ \E t \in DirectIds : DirectReadDone(t)
    \/ \E t \in DirectIds : DirectReadThrow(t)
    \/ \E t \in DirectIds, failed \in BOOLEAN : DirectToolDone(t, failed)
    \/ DirectRestart

SpecDirectCap == Init /\ [][NextDirectCap]_vars

\* ------------------------- the earlier version of the direct service's send
\* (first class of src/src/extension/GeminiService.ts: one remote call per
\* send, no tools, and a catch block that pops the history)

\* catch (err) { this._history.pop(); ... } finally { _isProcessing = false }
EarlierCatch(l, h, auth) ==
    DFinally(l, IF h = <<>> THEN h ELSE SubSeq(h, 1, Len(h) - 1), auth)

\* _isProcessing = true; the user prompt is pushed; the token is asked for.
EarlierBegin(t) ==
    /\ dsends' = [dsends EXCEPT ![t] = [IdleDirect EXCEPT !.pc = "token", !.turns = 1]]
    /\ history' = Append(history, Entry("user", t))
    /\ isProcessing' = TRUE

\* send(prompt), up to its first await.
EarlierSend ==
    IF isProcessing THEN UNCHANGED vars
    ELSE
        /\ nDirect < MaxDirect
        /\ nDirect' = nDirect + 1
        /\ IF initialized
           THEN EarlierBegin(nDirect + 1)
           ELSE /\ dsends' = [dsends EXCEPT ![nDirect + 1] = [IdleDirect EXCEPT !.pc = "init"]]
                /\ UNCHANGED <<history, isProcessing>>
        /\ UNCHANGED <<initialized, initializing, interrupted, svcVars, pureVars>>

\* `await this.start()` inside send returns.
EarlierInitDone(t, ok) ==
    /\ dsends[t].pc = "init"
    /\ initialized' = (ok \/ initialized)
    /\ IF initialized'
       THEN EarlierBegin(t)
       ELSE /\ dsends' = [dsends EXCEPT ![t].pc = "done"]
            /\ UNCHANGED <<history, isProcessing>>
    /\ UNCHANGED <<initializing, nDirect, interrupted, svcVars, pureVars>>

\* `await this._getAccessToken()` returns: the request is sent.
EarlierTokenDone(t) ==
    /\ dsends[t].pc = "token"
    /\ DCommit(t, DSuspend([dsends[t] EXCEPT !.pc = "fetch", !.fetches = @ + 1], history))

\* `await this._getAccessToken()` throws.
EarlierTokenThrow(t) ==
    /\ dsends[t].pc = "token"
    /\ DCommit(t, EarlierCatch(dsends[t], history, FALSE))

\* fetch returns an ok response: the body is read.
EarlierFetchDone(t) ==
    /\ dsends[t].pc = "fetch"
    /\ DCommit(t, DSuspend([dsends[t] EXCEPT !.pc = "read"], history))

\* fetch throws or returns a response that is not ok (auth: 401/403).
EarlierFetchFail(t, auth) ==
    /\ dsends[t].pc = "fetch"
    /\ DCommit(t, EarlierCatch(dsends[t], history, auth))

\* A read delivers a frame with text.
EarlierReadText(t) ==
    /\ dsends[t].pc = "read"
    /\ DCommit(t, DSuspend([dsends[t] EXCEPT !.fullText = TRUE], history))

\* The response stream is done: the model text is pushed, responseComplete.
EarlierReadDone(t) ==
    /\ dsends[t].pc = "read"
    /\ DCommit(t, DFinally([dsends[t] EXCEPT !.rc = @ + 1],
                           IF dsends[t].fullText THEN Append(history, Entry("text", t))
                           ELSE history,
                           FALSE))

\* reader.read() throws.
EarlierReadThrow(t) ==
    /\ dsends[t].pc = "read"
    /\ DCommit(t, EarlierCatch(dsends[t], history, FALSE))

\* restart(): clear the history and the processing flag.
EarlierRestart ==
    /\ history' = <<>>
    /\ isProcessing' = FALSE
    /\ interrupted' = interrupted \cup {t \in DirectIds : InFlight(t)}
    /\ UNCHANGED <<initialized, initializing, nDirect, dsends, svcVars, pureVars>>

NextEarlier ==
    \/ EarlierSend
    \/ \E t \in DirectIds, ok \in BOOLEAN : EarlierInitDone(t, ok)
    \/ \E t \in DirectIds : EarlierTokenDone(t)
    \/ \E t \in DirectIds : EarlierTokenThrow(t)
    \/ \E t \in DirectIds : EarlierFetchDone(t)
    \/ \E t \in DirectIds, auth \in BOOLEAN : EarlierFetchFail(t, auth)
    \/ \E t \in DirectIds : EarlierReadText(t)
    \/ \E t \in DirectIds : EarlierReadDone(t)
    \/ \E t \in DirectIds : EarlierReadThrow(t)
    \/ EarlierRestart

SpecEarlier == Init /\ [][NextEarlier]_vars

\* ------------------------------------------------------- _fetchWithRetry
\* What the server answers to one fetch attempt: a status (0: the fetch
\* itself fails, at the network level) and what `res.headers.get('retry-after')`
\* gives: null, an empty value, a number of seconds or an HTTP date.
NoHeader == "null"
HttpDate == "Wed, 21 Oct 2015 07:28:00 GMT"
Responses ==
    {[status |-> 200, retryAfter |-> NoHeader],
     [status |-> 500, retryAfter |-> NoHeader],
     [status |-> 0, retryAfter |-> NoHeader],
     [status |-> RATE_LIMITED, retryAfter |-> NoHeader],
     [status |-> RATE_LIMITED, retryAfter |-> ""],
     [status |-> RATE_LIMITED, retryAfter |-> "0"],
     [status |-> RATE_LIMITED, retryAfter |-> "1"],
     [status |-> RATE_LIMITED, retryAfter |-> HttpDate]}

\* The number NaN, which no arithmetic turns into a number again.
NaN == 0 - 1

\* parseInt(h, 10) for the header values above.
ParseInt(h) ==
    CASE h = "0" -> 0
      [] h = "1" -> 1
      [] OTHER -> NaN

\* 2^i
RECURSIVE Pow2(_)
Pow2(i) == IF i = 0 THEN 1 ELSE 2 * Pow2(i - 1)

\* Mutant: the retry-after header is not looked at.
WaitTimeIgnoresHeader(res, backoff, i) == backoff * Pow2(i)

\* retryAfter ? parseInt(retryAfter, 10) * 1000 : backoff * Math.pow(2, i)
\* (null and the empty string are falsy)
WaitTime(res, backoff, i) ==
    IF res.retryAfter \notin {NoHeader, ""}
    THEN IF ParseInt(res.retryAfter) = NaN THEN NaN ELSE ParseInt(res.retryAfter) * 1000
    ELSE backoff * Pow2(i)

RECURSIVE FetchAttempt(_, _, _, _, _)

\* Mutant: when the budget is used up on a 429 the call throws.
FetchAttemptThrowsWhenExhausted(resps, retries, backoff, i, waits) ==
    IF i > retries
    THEN [kind |-> "throw", status |-> 0, attempts |-> i, waits |-> waits]
    ELSE LET res == resps[i + 1] IN
         IF res.status = 0
         THEN [kind |-> "throw", status |-> 0, attempts |-> i + 1, waits |-> waits]
         ELSE IF res.status = RATE_LIMITED
         THEN IF i = retries
              THEN [kind |-> "throw", status |-> RATE_LIMITED, attempts |-> i + 1, waits |-> waits]
              ELSE FetchAttempt(resps, retries, backoff, i + 1,
                                Append(waits, WaitTime(res, backoff, i)))
         ELSE [kind |-> "return", status |-> res.status, attempts |-> i + 1, waits |-> waits]

\* Mutant: a response with a server error status is retried like a 429.
FetchAttemptRetriesErrors(resps, retries, backoff, i, waits) ==
    IF i > retries
    THEN [kind |-> "throw", status |-> 0, attempts |-> i, waits |-> waits]
    ELSE LET res == resps[i + 1] IN
         IF res.status = 0
         THEN [kind |-> "throw", status |-> 0, attempts |-> i + 1, waits |-> waits]
         ELSE IF res.status \in {RATE_LIMITED, 500}
         THEN IF i = retries
              THEN [kind |-> "return", status |-> res.status, attempts |-> i + 1, waits |-> waits]
              ELSE FetchAttempt(resps, retries, backoff, i + 1,
                                Append(waits, WaitTime(res, backoff, i)))
         ELSE [kind |-> "return", status |-> res.status, attempts |-> i + 1, waits |-> waits]

\* The loop of _fetchWithRetry from index i on: `for (let i = 0; i <= retries; i++)`.
FetchAttempt(resps, retries, backoff, i, waits) ==
    IF i > retries
    THEN [kind |-> "throw", status |-> 0, attempts |-> i, waits |-> waits]   \* 'Unreachable'
    ELSE LET res == resps[i + 1] IN
         IF res.status = 0
         THEN [kind |-> "throw", status |-> 0, attempts |-> i + 1, waits |-> waits]
         ELSE IF res.status = RATE_LIMITED
         THEN IF i = retries
              THEN [kind |-> "return", status |-> RATE_LIMITED, attempts |-> i + 1, waits |-> waits]
              ELSE FetchAttempt(resps, retries, backoff, i + 1,
                                Append(waits, WaitTime(res, backoff, i)))
         ELSE [kind |-> "return", status |-> res.status, attempts |-> i + 1, waits |-> waits]

\* _fetchWithRetry(url, options, retries, backoff)
FetchWithRetry(resps, retries, backoff) == FetchAttempt(resps, retries, backoff, 0, <<>>)

\* The server's answers to more attempts than any budget allows, and a budget.
InitFetch ==
    /\ InitService
    /\ InitDirect
    /\ fetchIn \in [resps : [1..(MaxRetries + 2) -> Responses], retries : 0..MaxRetries]
    /\ fetchOut = NoResult
    /\ InitDecode
    /\ InitMcp
    /\ InitSlash

\* One call of _fetchWithRetry with the default backoff.
FetchCall ==
    /\ fetchOut = NoResult
    /\ fetchOut' = FetchWithRetry(fetchIn.resps, fetchIn.retries, DEFAULT_BACKOFF)
    /\ UNCHANGED <<fetchIn, svcVars, directVars, decodeVars, mcpVars, slashVars>>

NextFetch == FetchCall

SpecFetch == InitFetch /\ [][NextFetch]_vars

\* ------------------------------------------------- the SSE decode loop
\* The response body is a sequence of symbols: LF is the newline, "da" and
\* "ta: " are the two halves of the prefix `data: `, and a JSON payload is
\* an opening symbol that names its content followed by its closing brace.
LF == "LF"
DataPrefix == <<"da", "ta: ">>

MaxFrames == 3       \* lines of one response body

\* The lines a body is made of: a frame with the text a or b, a frame with a
\* function call, a frame whose JSON is cut short, the [DONE] frame, an
\* empty line.
TextA == DataPrefix \o <<"{a", "}">>
TextB == DataPrefix \o <<"{b", "}">>
CallF == DataPrefix \o <<"{f", "}">>
Malformed == DataPrefix \o <<"{a">>
DoneFrame == DataPrefix \o <<"[DONE]">>
FrameLines == {TextA, TextB, CallF, Malformed, DoneFrame, <<>>}

\* The body the server sends for a sequence of lines.
RECURSIVE Body(_)
Body(frames) ==
    IF frames = <<>> THEN <<>> ELSE Head(frames) \o <<LF>> \o Body(Tail(frames))

RECURSIVE SplitLines(_, _, _)

\* Mutant: nothing is carried over from one read to the next.
SplitLinesDropsRest(buf, cur, acc) ==
    IF buf = <<>> THEN [lines |-> acc, rest |-> <<>>]
    ELSE IF Head(buf) = LF THEN SplitLines(Tail(buf), <<>>, Append(acc, cur))
    ELSE SplitLines(Tail(buf), Append(cur, Head(buf)), acc)

\* lines = buffer.split('\n'); buffer = lines.pop() || '':
\* the complete lines of buf and the partial line after the last newline.
SplitLines(buf, cur, acc) ==
    IF buf = <<>> THEN [lines |-> acc, rest |-> cur]
    ELSE IF Head(buf) = LF THEN SplitLines(Tail(buf), <<>>, Append(acc, cur))
    ELSE SplitLines(Tail(buf), Append(cur, Head(buf)), acc)

\* line.startsWith('data: ')
StartsWithData(line) == Len(line) >= 2 /\ SubSeq(line, 1, 2) = DataPrefix

\* JSON.parse(jsonStr) and the look at candidates[0].content.parts[0].
ParseFrame(jsonStr) ==
    CASE jsonStr = <<"{a", "}">> -> [kind |-> "text", value |-> "a"]
      [] jsonStr = <<"{b", "}">> -> [kind |-> "text", value |-> "b"]
      [] jsonStr = <<"{f", "}">> -> [kind |-> "functionCall", value |-> "f"]
      [] OTHER -> [kind |-> "parseError", value |-> ""]

\* Mutant: a payload that does not parse ends the decoding with a failure.
ProcessLineFailsOnParseError(out, line) ==
    IF out.failed \/ ~StartsWithData(line) THEN out
    ELSE LET jsonStr == SubSeq(line, 3, Len(line)) IN
         IF jsonStr = <<>> \/ jsonStr = <<"[DONE]">> THEN out
         ELSE LET part == ParseFrame(jsonStr) IN
              IF part.kind = "text" THEN [out EXCEPT !.text = Append(@, part.value)]
              ELSE IF part.kind = "functionCall" THEN [out EXCEPT !.toolCall = part.value]
              ELSE [out EXCEPT !.failed = TRUE]

\* The body of `for (const line of lines)`: a data line is parsed; text is
\* emitted and added to fullText, a function call is kept in toolCall, a
\* parse error is logged.
ProcessLine(out, line) ==
    IF ~StartsWithData(line) THEN out
    ELSE LET jsonStr == SubSeq(line, 3, Len(line)) IN
         IF jsonStr = <<>> \/ jsonStr = <<"[DONE]">> THEN out
         ELSE LET part == ParseFrame(jsonStr) IN
              IF part.kind = "text" THEN [out EXCEPT !.text = Append(@, part.value)]
              ELSE IF part.kind = "functionCall" THEN [out EXCEPT !.toolCall = part.value]
              ELSE out

RECURSIVE ProcessLines(_, _)
ProcessLines(out, lines) ==
    IF lines = <<>> THEN out
    ELSE ProcessLines(ProcessLine(out, Head(lines)), Tail(lines))

\* One pass of the read loop on the chunk `value`.
DecodeChunk(buffer, out, value) ==
    LET split == SplitLines(buffer \o value, <<>>, <<>>) IN
    [buffer |-> split.rest, out |-> ProcessLines(out, split.lines)]

\* A response body of newline-terminated lines is about to be read.
InitDecodeBody ==
    /\ InitService
    /\ InitDirect
    /\ InitRetry
    /\ InitMcp
    /\ InitSlash
    /\ decFrames \in UNION {[1..n -> FrameLines] : n \in 0..MaxFrames}
    /\ decRest = Body(decFrames)
    /\ decBuf = <<>>
    /\ decOut = NoOutput
    /\ decDone = FALSE

\* reader.read() delivers the next n symbols of the body.
DecodeRead(n) ==
    /\ ~decDone
    /\ n \in 1..Len(decRest)
    /\ LET got == DecodeChunk(decBuf, decOut, SubSeq(decRest, 1, n)) IN
       /\ decBuf' = got.buffer
       /\ decOut' = got.out
    /\ decRest' = SubSeq(decRest, n + 1, Len(decRest))
    /\ UNCHANGED <<decFrames, decDone, svcVars, directVars, retryVars, mcpVars, slashVars>>

\* reader.read() returns done: the loop is left.
DecodeClose ==
    /\ ~decDone
    /\ decRest = <<>>
    /\ decDone' = TRUE
    /\ UNCHANGED <<decFrames, decRest, decBuf, decOut, svcVars, directVars, retryVars, mcpVars, slashVars>>

NextDecode ==
    \/ \E n \in 1..(4 * MaxFrames + MaxFrames) : DecodeRead(n)
    \/ DecodeClose

SpecDecode == InitDecodeBody /\ [][NextDecode]_vars

\* The body the server sends when the stream closes right after the last
\* line, before that line's newline.
Unterminated(frames) == LET body == Body(frames) IN SubSeq(body, 1, Len(body) - 1)

\* A response body whose last line has no terminating newline is about to
\* be read.
InitDecodeOpen ==
    /\ InitService
    /\ InitDirect
    /\ InitRetry
    /\ InitMcp
    /\ InitSlash
    /\ decFrames \in UNION {[1..n -> FrameLines] : n \in 0..MaxFrames}
    /\ decRest = Unterminated(decFrames)
    /\ decBuf = <<>>
    /\ decOut = NoOutput
    /\ decDone = FALSE

SpecDecodeOpen == InitDecodeOpen /\ [][NextDecode]_vars

\* ---------------------------------------------- McpClient (tool directory)
MaxCalls == 2        \* callTool invocations

\* `for (const tool of toolsResult.tools) this._tools.set(tool.name, { server, tool })`
Register(tools, server, listed) ==
    [n \in Tools |-> IF n \in listed THEN server ELSE tools[n]]

\* start(), one pass of the loop over the configured servers: the server is
\* skipped (disabled, or connect fails), or connected; a connected server's
\* tools are registered unless listTools fails.
McpConnect(connected, listed) ==
    /\ mcpNext <= Len(Servers)
    /\ mcpNext' = mcpNext + 1
    /\ LET server == Servers[mcpNext] IN
       IF connected
       THEN /\ mcpClients' = mcpClients \cup {server}
            /\ mcpAlive' = mcpAlive \cup {server}
            /\ mcpTools' = Register(mcpTools, server, listed)
            /\ mcpFirst' = [n \in Tools |->
                              IF n \in listed /\ mcpFirst[n] = NoServer
                              THEN server ELSE mcpFirst[n]]
       ELSE UNCHANGED <<mcpClients, mcpAlive, mcpTools, mcpFirst>>
    /\ UNCHANGED <<mcpLast, mcpCalls, svcVars, directVars, retryVars, decodeVars, slashVars>>

\* The connection to a server drops (its process exits): the McpClient is
\* not told, _clients and _tools stay as they are.
McpDrop(server) ==
    /\ server \in mcpAlive
    /\ mcpAlive' = mcpAlive \ {server}
    /\ UNCHANGED <<mcpClients, mcpTools, mcpNext, mcpFirst, mcpLast, mcpCalls,
                   svcVars, directVars, retryVars, decodeVars, slashVars>>

\* callTool(name, args): which error it throws, or the server whose client
\* the call is handed to.
CallTool(tools, clients, name) ==
    IF tools[name] = NoServer THEN [kind |-> "notFound", to |-> NoServer]
    ELSE IF tools[name] \notin clients THEN [kind |-> "notConnected", to |-> NoServer]
    ELSE [kind |-> "forwarded", to |-> tools[name]]

\* callTool(name, args)
McpCallTool(name) ==
    /\ mcpCalls < MaxCalls
    /\ mcpCalls' = mcpCalls + 1
    /\ LET out == CallTool(mcpTools, mcpClients, name) IN
       mcpLast' = [name |-> name, kind |-> out.kind, to |-> out.to,
                   alive |-> mcpTools[name] \in mcpAlive]
    /\ UNCHANGED <<mcpClients, mcpTools, mcpNext, mcpAlive, mcpFirst,
                   svcVars, directVars, retryVars, decodeVars, slashVars>>

\* dispose(): the clients are closed, both maps are cleared.
McpDispose ==
    /\ mcpClients' = {}
    /\ mcpAlive' = {}
    /\ mcpTools' = [n \in Tools |-> NoServer]
    /\ mcpFirst' = [n \in Tools |-> NoServer]
    /\ UNCHANGED <<mcpNext, mcpLast, mcpCalls, svcVars, directVars, retryVars, decodeVars, slashVars>>

\* start() is called again (the direct service's /restart command calls
\* start(), which calls McpClient.start() on the same object).
McpStart ==
    /\ mcpNext > Len(Servers)
    /\ mcpNext' = 1
    /\ UNCHANGED <<mcpClients, mcpTools, mcpAlive, mcpFirst, mcpLast, mcpCalls,
                   svcVars, directVars, retryVars, decodeVars, slashVars>>

\* getToolsForGemini(): the names listed, each with the declaration of the
\* server whose registration is kept.
GetToolsForGemini(tools) == {<<n, tools[n]>> : n \in {m \in Tools : tools[m] # NoServer}}

NextMcp ==
    \/ \E connected \in BOOLEAN, listed \in SUBSET Tools : McpConnect(connected, listed)
    \/ \E server \in {Servers[i] : i \in 1..Len(Servers)} : McpDrop(server)
    \/ \E name \in Tools : McpCallTool(name)
    \/ McpDispose
    \/ McpStart

SpecMcp == Init /\ [][NextMcp]_vars

\* ------------------------------------------ slash commands, panel and service
MaxHops == 3         \* hand-overs of one command from the panel to the service

\* What the user types after the slash, with and without arguments.
TypedCommands ==
    {Typed(c, "") : c \in {"clear", "restart", "status", "log", "help", "mcp", "MCP",
                           "tools", "debug", "agents", "skills", "foo", "CLEAR", "Status"}}
    \cup {Typed("mcp", "list"), Typed("MCP", "list")}

\* `/${command} ${args || ''}`.trim()
PanelPrompt(c, a) ==
    CASE a = "list" /\ c = "mcp" -> "/mcp list"
      [] a = "list" /\ c = "MCP" -> "/MCP list"
      [] a = "" /\ c = "clear" -> "/clear"
      [] a = "" /\ c = "restart" -> "/restart"
      [] a = "" /\ c = "status" -> "/status"
      [] a = "" /\ c = "log" -> "/log"
      [] a = "" /\ c = "help" -> "/help"
      [] a = "" /\ c = "mcp" -> "/mcp"
      [] a = "" /\ c = "MCP" -> "/MCP"
      [] a = "" /\ c = "tools" -> "/tools"
      [] a = "" /\ c = "debug" -> "/debug"
      [] a = "" /\ c = "agents" -> "/agents"
      [] a = "" /\ c = "skills" -> "/skills"
      [] a = "" /\ c = "foo" -> "/foo"
      [] a = "" /\ c = "CLEAR" -> "/CLEAR"
      [] a = "" /\ c = "Status" -> "/Status"

\* The webview posts a slashCommand message while the service is busy or
\* not, ready or not.
InitSlashTyped ==
    /\ InitService /\ InitDirect /\ InitRetry /\ InitDecode /\ InitMcp
    /\ slash \in {[IdleSlash EXCEPT !.at = "panel", !.typed = ty,
                                    !.command = ty.command, !.args = ty.args,
                                    !.busy = b, !.isReady = r] :
                     ty \in TypedCommands, b \in BOOLEAN, r \in BOOLEAN}

\* GeminiPanel._handleSlashCommand(command, args): the switch compares the
\* command as it is; 'mcp' and every name without a case go to send().
SlashPanel ==
    /\ slash.at = "panel"
    /\ slash' =
         IF slash.command \in {"clear", "restart"}
         THEN [slash EXCEPT !.at = "done", !.outcome = "restart"]
         ELSE IF slash.command \in {"status", "help", "log"}
         THEN [slash EXCEPT !.at = "done", !.outcome = "panel"]
         ELSE [slash EXCEPT !.at = "service", !.toService = @ + 1]
    /\ UNCHANGED <<svcVars, directVars, retryVars, decodeVars, mcpVars>>

\* Mutant: the slashCommand event carries the command as it was typed.
EmittedCommandAsTyped(prompt, typed) == typed

\* `this.emit('slashCommand', { command, args: subCommand })`: the command is
\* the lower-cased first word of the prompt.
EmittedCommand(prompt, typed) == PromptCommand(prompt)

\* GeminiService.send('/command args') as the panel calls it; a slashCommand
\* event runs the panel's listener, which calls _handleSlashCommand.
SlashService ==
    /\ slash.at = "service"
    /\ slash.toService <= MaxHops
    /\ LET prompt == PanelPrompt(slash.command, slash.args)
           outcome == SendOutcome(prompt, slash.busy, slash.isReady)
       IN slash' =
            IF outcome \in {"busy", "notReady"}
            THEN [slash EXCEPT !.at = "done", !.outcome = outcome]
            ELSE IF outcome = "turn"
            THEN [slash EXCEPT !.at = "done", !.outcome = "model", !.modelSends = @ + 1]
            ELSE IF PromptCommand(prompt) \in LocalCommands
            THEN [slash EXCEPT !.at = "done", !.outcome = "service"]
            ELSE [slash EXCEPT !.at = "panel", !.toPanel = @ + 1,
                               !.command = EmittedCommand(prompt, slash.command)]
    /\ UNCHANGED <<svcVars, directVars, retryVars, decodeVars, mcpVars>>

NextSlash == SlashPanel \/ SlashService

SpecSlash == InitSlashTyped /\ [][NextSlash]_vars

\* ------------------------------------------------------------------ claims
\* A send is active from the moment it starts a turn until its finally block.
Active(t) == sends[t].pc \notin {"idle", "done"}

\* Send t emits a requestAuthorization event in this step.
Requested(t) == sends'[t].authReqs = sends[t].authReqs + 1

\* C1: at most one turn is active on the service at any time (a send issued
\* while a turn is still executing starts no new turn).
C1_AtMostOneActiveTurn ==
    \A t, u \in SendIds : Active(t) /\ Active(u) => t = u

\* C2: a batch is handed to the scheduler only when every call of the batch
\* passed the gate: its name was in the approved set when it was checked, or
\* an approving decision arrived while it was the call awaiting a decision.
C2_GateBeforeDispatch ==
    \A t \in SendIds :
        sends[t].pc = "scheduling" =>
            /\ sends[t].toolCallRequests # <<>>
            /\ sends[t].cleared = 1..Len(sends[t].toolCallRequests)

C2_Witness ==
    \E t \in SendIds :
        /\ sends[t].pc = "scheduling"
        /\ Len(sends[t].toolCallRequests) = 2
        /\ sends[t].toolCallRequests[1] \in approvedTools
        /\ sends[t].toolCallRequests[2] \notin approvedTools
        /\ sends[t].authReqs = 1

\* C3: a send that started a turn has emitted responseComplete exactly once
\* when it has ended, and not at all before, whichever way it ends.
C3_ResponseCompleteOnce ==
    \A t \in SendIds :
        /\ sends[t].pc = "done" => sends[t].rc = 1
        /\ sends[t].pc # "done" => sends[t].rc = 0

C3_Witness ==
    \E t \in SendIds :
        /\ sends[t].pc = "done"
        /\ sends[t].notice = "maxTurns"
        /\ sends[t].aborted
        /\ sends[t].rc = 1

\* C4: one send makes at most 20 remote calls; the 21st iteration of the
\* loop makes no remote call, emits the maximum-turns notice and ends the turn.
C4_TurnCap ==
    /\ [](\A t \in SendIds :
            /\ sends[t].remoteCalls <= TURN_CAP
            /\ sends[t].turnCount <= TURN_CAP
            /\ sends[t].notice = "maxTurns" =>
                  sends[t].pc = "done" /\ sends[t].remoteCalls = TURN_CAP)
    /\ [][\A t \in SendIds :
            (sends[t].pc = "recording" /\ sends[t].turnCount = TURN_CAP
                /\ sends'[t].pc # "recording")
            => /\ sends'[t].pc = "done"
               /\ sends'[t].remoteCalls = TURN_CAP
               /\ (sends'[t].notice = "maxTurns" \/ sends'[t].notice = sends[t].notice)]_vars

C4_Witness ==
    \E t \in SendIds :
        /\ sends[t].notice = "maxTurns"
        /\ sends[t].remoteCalls = TURN_CAP
        /\ ~sends[t].aborted

\* C5: once a deny decision has settled a send's pending authorization, the
\* batch of that turn is never handed to the scheduler (the calls approved
\* earlier in the batch included), no further remote call is made, and the
\* send ends with exactly one responseComplete.
C5_DenyEndsTurn ==
    /\ [](\A t \in SendIds :
            sends[t].denied =>
                /\ sends[t].pc \in {"awaitAuth", "done"}
                /\ sends[t].pc = "done" => sends[t].rc = 1 /\ sends[t].notice = "denied")
    /\ [][\A t \in SendIds :
            sends[t].denied =>
                /\ sends'[t].denied
                /\ sends'[t].pc \in {"awaitAuth", "done"}
                /\ sends'[t].remoteCalls = sends[t].remoteCalls
                /\ sends'[t].rc <= 1]_vars

C5_Witness ==
    \E t \in SendIds :
        /\ sends[t].denied
        /\ sends[t].pc = "done"
        /\ sends[t].authReqs = 2
        /\ sends[t].remoteCalls = 1
        /\ sends[t].rc = 1

\* Every call queued by send t is in the approved-for-session set.
AllApproved(l) ==
    /\ l.toolCallRequests # <<>>
    /\ \A i \in 1..Len(l.toolCallRequests) : l.toolCallRequests[i] \in approvedTools

\* C6: when the stream of a turn ends with every queued call already in the
\* approved set, no requestAuthorization is emitted and the send does not
\* suspend: the batch goes to the scheduler in the same step (unless the
\* turn was cancelled or the call fails).
C6_ApprovedBatchSkipsGate ==
    [][\A t \in SendIds :
        (sends[t].pc = "streaming" /\ sends'[t].pc # "streaming" /\ AllApproved(sends[t]))
        => /\ ~Requested(t)
           /\ sends'[t].authReqs = 0
           /\ pendingAuthorization' = pendingAuthorization
           /\ sends'[t].pc \in {"scheduling", "done"}
           /\ sends'[t].pc = "done" =>
                 sends[t].aborted \/ ~ready \/ sends'[t].notice = "error"]_vars

C6_Witness ==
    \E t \in SendIds :
        /\ sends[t].pc = "scheduling"
        /\ sends[t].authReqs = 0
        /\ sends[t].toolCallRequests = <<"read", "shell">>
        /\ approvedTools = {"read", "shell"}

C8_OnceIsNotRemembered ==
    [][/\ approvedTools' # approvedTools =>
            \A n \in Tools \cup {NoTool} : ~Authorize("once", n)
       /\ \A t \in SendIds :
            (/\ sends[t].pc = "awaitAuth"
             /\ sends[t].promise = "resolved"
             /\ sends'[t].promise # "resolved"
             /\ \E i \in (sends[t].authIdx + 1)..Len(sends[t].toolCallRequests) :
                   sends[t].toolCallRequests[i] \notin approvedTools)
            => /\ Requested(t)
               /\ sends'[t].pc = "awaitAuth"
               /\ sends'[t].authIdx > sends[t].authIdx
               /\ AwaitedTool(sends'[t]) \notin approvedTools]_vars

C8_Witness ==
    \E t \in SendIds :
        /\ sends[t].pc = "awaitAuth"
        /\ sends[t].promise = "pending"
        /\ sends[t].authIdx = 2
        /\ sends[t].authReqs = 2
        /\ sends[t].toolCallRequests[1] = sends[t].toolCallRequests[2]
        /\ approvedTools = {}

\* C9: after restart() the approved-for-session set holds no name approved
\* before the restart: it is contained in the names approved since.
C9_RestartClearsApproved ==
    approvedTools \subseteq grantedSession

\* C10: after restart() was called while a turn was in flight, the history
\* holds no entry of the interrupted turn: it is emptied by the restart and
\* the interrupted send appends nothing to it afterwards.
C10_InterruptedTurnAppendsNothing ==
    \A i \in 1..Len(history) : history[i].by \notin interrupted

\* C11 (as the code has it): once the signal of a send is aborted while its
\* response stream is being consumed, the next fragment, the end of the stream
\* or a failing read ends the send in that same step: the fragment is neither
\* emitted nor queued, no remote call follows, responseComplete is emitted
\* once, and the only data event is the stopped-by-user notice (emitted when
\* no tool call was queued, or when the read failed).
C11_StopEndsStream ==
    [][\A t \in SendIds :
        (sends[t].pc = "streaming" /\ sends[t].aborted /\ sends'[t] # sends[t])
        => /\ sends'[t].pc = "done"
           /\ sends'[t].rc = 1
           /\ sends'[t].remoteCalls = sends[t].remoteCalls
           /\ sends'[t].notice \in {sends[t].notice, "stopped"}
           /\ sends[t].toolCallRequests = <<>> => sends'[t].notice = "stopped"]_vars

C11_Witness ==
    \E t \in SendIds :
        /\ sends[t].pc = "streaming"
        /\ sends[t].aborted
        /\ sends[t].toolCallRequests = <<>>
        /\ sends[t].remoteCalls = 1
        /\ processing

\* C11 (as stated): after stop() during the stream no further data event is
\* emitted for that turn: the step that ends the send puts nothing on the
\* data channel.
C11_NoDataAfterStop ==
    [][\A t \in SendIds :
        (sends[t].pc = "streaming" /\ sends[t].aborted /\ sends'[t] # sends[t])
        => /\ sends'[t].pc = "done"
           /\ sends'[t].notice = sends[t].notice]_vars

\* C12: a send whose signal is aborted never hands a batch to the scheduler,
\* whether the abort came during the stream or during the wait for a decision
\* that was then an approving one.
C12_AbortedNeverDispatches ==
    [][\A t \in SendIds :
        (sends[t].pc # "scheduling" /\ sends'[t].pc = "scheduling") => ~sends[t].aborted]_vars

C12_Witness ==
    \E t \in SendIds :
        /\ sends[t].pc = "awaitAuth"
        /\ sends[t].aborted
        /\ sends[t].promise = "resolved"
        /\ sends[t].authIdx = Len(sends[t].toolCallRequests)

\* C13: stop() during the wait for an authorization decision cancels the turn
\* without a decision: no send stays suspended on an undecided authorization
\* with its signal aborted while the service still refuses new sends.
C13_StopReleasesAuthorizationWait ==
    \A t \in SendIds :
        ~(/\ sends[t].pc = "awaitAuth"
          /\ sends[t].promise = "pending"
          /\ sends[t].aborted
          /\ processing)

\* C14: after an Error or LoopDetected fragment the turn is over: no tool call
\* of that turn waits for a decision, is executed or recorded.
C14_StreamErrorEndsTurn ==
    \A t \in SendIds :
        sends[t].notice = "streamError" => sends[t].pc \in {"streaming", "done"}

\* The prompts C15 names as recognised local commands (one of them also in
\* upper case with an argument).
C15_Recognized ==
    {"/mcp", "/MCP list", "/tools", "/debug", "/agents", "/skills",
     "/clear", "/restart", "/status", "/log", "/help"}

\* C15: a send of a recognised local command makes no remote call, leaves the
\* processing flag as it was (false) and creates no cancellation token; a
\* slash-prefixed prompt that is not recognised is treated exactly like plain
\* text and starts a turn.
C15_LocalCommandsStayLocal ==
    [][/\ \A p \in C15_Recognized :
            Send(p, MaxSends) =>
                /\ nSends' = nSends
                /\ processing' = processing
                /\ ~processing'
                /\ abortController' = abortController
                /\ \A t \in SendIds : /\ sends'[t].pc = sends[t].pc
                                      /\ sends'[t].remoteCalls = sends[t].remoteCalls
       /\ Send("/foo", MaxSends) <=> Send("hello", MaxSends)
       /\ Send("/foo", MaxSends) =>
                /\ nSends' = nSends + 1
                /\ processing'
                /\ abortController' = nSends'
                /\ sends'[nSends'].pc = "getHistory"]_vars

C15_Witness ==
    /\ ready
    /\ ~processing
    /\ abortController = 0
    /\ starting = 0
    /\ nSends = 1
    /\ sends[1].pc = "done"
    /\ sends[1].remoteCalls = 1
    /\ \A p \in C15_Recognized : SendOutcome(p, processing, ready) = "local"
    /\ SendOutcome("/foo", processing, ready) = "turn"

EntriesBy(h, t) == SelectSeq(h, LAMBDA e : e.by = t)

\* C17: a send whose response stream carries no function-call frame ends
\* after exactly one remote call, with the user prompt followed by one model
\* entry as what it added to the history.
C17_TextTurnAddsTwo ==
    [][\A t \in DirectIds :
        (/\ dsends[t].pc = "read"
         /\ dsends[t].turns = 1
         /\ dsends[t].toolCall = NoCall
         /\ dsends'[t].pc = "done"
         /\ dsends'[t].rc = dsends[t].rc + 1)
        => /\ dsends'[t].fetches = 1
           /\ EntriesBy(history', t) = <<Entry("user", t), Entry("text", t)>>]_vars

\* C18: a failing token request, remote call or stream read leaves the
\* history as it was before the failure: the history before the send, the
\* user prompt and what was appended since are all still there.
C18_FailureKeepsHistory ==
    [][\A t \in DirectIds :
        (/\ dsends[t].pc \in {"token", "fetch", "read"}
         /\ dsends'[t].pc = "done"
         /\ dsends'[t].rc = dsends[t].rc)
        => history' = history]_vars

\* C20: a call of _fetchWithRetry with budget `retries` ends after at most
\* retries + 1 attempts (4 with the default budget); when each of these
\* attempts is answered with 429 the call returns the 429 response of the last
\* attempt and does not throw.
C20_RetryBudget ==
    fetchOut # NoResult =>
        /\ fetchOut.attempts >= 1
        /\ fetchOut.attempts <= fetchIn.retries + 1
        /\ fetchIn.retries = DEFAULT_RETRIES => fetchOut.attempts <= 4
        /\ (\A i \in 1..(fetchIn.retries + 1) : fetchIn.resps[i].status = RATE_LIMITED)
              => /\ fetchOut.kind = "return"
                 /\ fetchOut.status = RATE_LIMITED
                 /\ fetchOut.attempts = fetchIn.retries + 1
                 /\ Len(fetchOut.waits) = fetchIn.retries

C20_Witness ==
    /\ fetchIn.retries = DEFAULT_RETRIES
    /\ \A i \in 1..4 : fetchIn.resps[i].status = RATE_LIMITED
    /\ fetchOut.kind = "return"
    /\ fetchOut.status = RATE_LIMITED
    /\ fetchOut.attempts = 4

C22_OnlyRateLimitRetries ==
    fetchOut # NoResult =>
        LET n == fetchOut.attempts
            last == fetchIn.resps[n] IN
        /\ \A k \in 1..(n - 1) : fetchIn.resps[k].status = RATE_LIMITED
        /\ Len(fetchOut.waits) = n - 1
        /\ last.status \notin {0, RATE_LIMITED} =>
              fetchOut.kind = "return" /\ fetchOut.status = last.status
        /\ last.status = 0 => fetchOut.kind = "throw"
        /\ last.status = RATE_LIMITED => n = fetchIn.retries + 1

C22_Witness ==
    /\ fetchIn.retries = DEFAULT_RETRIES
    /\ fetchIn.resps[1].status = RATE_LIMITED
    /\ fetchIn.resps[2].status = 0
    /\ fetchIn.resps[3].status = 200
    /\ fetchOut.kind = "throw"
    /\ fetchOut.attempts = 2
    /\ Len(fetchOut.waits) = 1

\* What the body decodes to when it is delivered by one single read.
OneRead(frames) == DecodeChunk(<<>>, NoOutput, Body(frames)).out

\* The text deltas carried by the well-formed frames of a body, in order.
RECURSIVE TextsOf(_)
TextsOf(frames) ==
    IF frames = <<>> THEN <<>>
    ELSE (CASE Head(frames) = TextA -> <<"a">>
            [] Head(frames) = TextB -> <<"b">>
            [] OTHER -> <<>>) \o TextsOf(Tail(frames))

\* C23: whatever way a body of newline-terminated lines is cut into reads,
\* the decode loop ends with the text deltas and the tool call that one
\* single read of the whole body gives, the deltas in the order of the frames.
C23_SplitIndependent ==
    decDone =>
        /\ decOut = OneRead(decFrames)
        /\ decOut.text = TextsOf(decFrames)
        /\ decBuf = <<>>

C23_Witness ==
    /\ ~decDone
    /\ decFrames = <<TextA, CallF, TextB>>
    /\ decOut.text = <<"a">>
    /\ decOut.toolCall = "f"
    /\ decBuf = <<"da", "ta: ", "{b">>
    /\ decRest = <<"}", LF>>

\* C24: a data frame whose payload does not parse is skipped: the loop does
\* not fail, and the text deltas and the function call of the well-formed
\* frames before and after it are decoded, in order.
C24_MalformedFrameSkipped ==
    /\ ~decOut.failed
    /\ decDone =>
          /\ decOut.text = TextsOf(decFrames)
          /\ (\E i \in 1..Len(decFrames) : decFrames[i] = CallF) <=> decOut.toolCall = "f"

C24_Witness ==
    /\ decDone
    /\ decFrames = <<TextA, Malformed, TextB>>
    /\ decOut.text = <<"a", "b">>
    /\ ~decOut.failed

\* C25: when two servers register a tool of the same name, the registration
\* of the first one is kept: the name is routed to the first server and the
\* declaration listed is the first server's.
C25_FirstRegisteredWins ==
    \A n \in Tools :
        /\ mcpTools[n] = mcpFirst[n]
        /\ mcpFirst[n] # NoServer => <<n, mcpFirst[n]>> \in GetToolsForGemini(mcpTools)
        /\ (mcpLast.name = n /\ mcpLast.kind = "forwarded" /\ mcpFirst[n] # NoServer)
              => mcpLast.to = mcpFirst[n]

\* C26: callTool ends with tool-not-found, nothing forwarded, when the name is
\* not registered; with provider-unavailable, nothing forwarded, when the
\* owning server has no live connection; and is forwarded to the owning
\* server in every other case.
C26_CallToolOutcomes ==
    mcpLast # NoToolCall =>
        /\ mcpLast.kind = "notFound" => mcpLast.to = NoServer
        /\ mcpLast.kind = "notConnected" => mcpLast.to = NoServer
        /\ mcpLast.kind = "forwarded" => mcpLast.alive /\ mcpLast.to # NoServer
        /\ (mcpLast.kind # "notFound" /\ ~mcpLast.alive) => mcpLast.kind = "notConnected"

\* The step in which the tool invocation of direct send t ends.
ToolStep(t) == dsends[t].pc = "tool" /\ dsends'[t].pc # "tool"

\* The tool invocation that ends in this step failed.
ToolFailed(t) == history' # <<>> /\ history'[Len(history')].kind = "functionResponseError"

C28_AbortEmitsNotice ==
    \A t \in SendIds :
        (sends[t].pc = "done" /\ sends[t].aborted) => sends[t].notice # "none"

\* C30: within one turn the requestAuthorization events go through the
\* unapproved calls in the order of the batch, one per step: a request is
\* emitted only when no earlier request of the send is still undecided, it
\* is for the first unapproved call after the one decided last, and the send
\* then waits for its decision before anything else.
C30_OneRequestAtATime ==
    [][\A t \in SendIds : Requested(t) =>
          LET calls == sends[t].toolCallRequests
              prev == sends[t].authIdx
              i == sends'[t].authIdx
          IN /\ sends[t].promise # "pending"
             /\ sends[t].pc = "awaitAuth" => sends[t].promise = "resolved"
             /\ sends'[t].toolCallRequests = calls
             /\ i \in (prev + 1)..Len(calls)
             /\ calls[i] \notin approvedTools
             /\ \A j \in (prev + 1)..(i - 1) : calls[j] \in approvedTools
             /\ sends'[t].pc = "awaitAuth"
             /\ sends'[t].promise = "pending"
             /\ pendingAuthorization' = t]_vars

\* The second request of a turn is outstanding, the first one decided.
C30_Witness ==
    \E t \in SendIds :
        /\ sends[t].pc = "awaitAuth"
        /\ sends[t].promise = "pending"
        /\ sends[t].authReqs = 2
        /\ sends[t].authIdx = 2
        /\ pendingAuthorization = t

\* C29: when every response stream ends and every awaited call of a send
\* returns, a send that has started a turn eventually emits responseComplete
\* or is suspended on an authorization request it has emitted and that no
\* decision has settled.
C29_TurnEndsOrAwaitsDecision ==
    \A t \in SendIds :
        Active(t) ~> \/ sends[t].pc = "done"
                     \/ sends[t].pc = "awaitAuth" /\ sends[t].promise = "pending"
                                                  /\ sends[t].authReqs > 0

\* A send is suspended in its second round on a request it has emitted.
C29_Witness ==
    \E t \in SendIds :
        /\ sends[t].pc = "awaitAuth"
        /\ sends[t].promise = "pending"
        /\ sends[t].authReqs > 0
        /\ sends[t].turnCount = 2
        /\ pendingAuthorization = t

\* C31: the batch handed to the scheduler in a turn is the sequence of
\* ToolCallRequest events the stream of that turn delivered, in arrival
\* order, and the remote call that follows the batch carries the response
\* parts of exactly those calls, in that order.
C31_BatchIsStreamOrder ==
    [][\A t \in SendIds :
          /\ (sends[t].pc # "scheduling" /\ sends'[t].pc = "scheduling") =>
                /\ sends[t].received # <<>>
                /\ sends'[t].dispatched = sends[t].received
          /\ (sends[t].pc = "recording" /\ sends'[t].remoteCalls = sends[t].remoteCalls + 1) =>
                /\ Len(CurrentParts(sends[t])) = Len(sends[t].received)
                /\ \A i \in 1..Len(sends[t].received) :
                      CurrentParts(sends[t])[i] = [functionResponse |-> sends[t].received[i]]]_vars

\* The second remote call of a send has been made after a batch of two
\* different calls was dispatched and recorded.
C31_Witness ==
    \E t \in SendIds :
        /\ sends[t].pc = "recording"
        /\ sends[t].received = <<"shell", "read">>
        /\ sends[t].dispatched = <<"shell", "read">>
        /\ CurrentParts(sends[t]) = <<[functionResponse |-> "shell"], [functionResponse |-> "read"]>>

\* C32: a send whose signal has been aborted, by stop() or by restart(),
\* makes no further remote call; when its tool batch completes after the
\* abort, the send ends at the top of the loop and the response parts of the
\* batch are dropped.
C32_NoRemoteCallAfterAbort ==
    [][\A t \in SendIds :
          /\ sends'[t].remoteCalls > sends[t].remoteCalls => ~sends[t].aborted
          /\ (sends[t].pc = "recording" /\ sends[t].aborted /\ sends'[t] # sends[t]) =>
                /\ sends'[t].pc = "done"
                /\ sends'[t].remoteCalls = sends[t].remoteCalls
                /\ sends'[t].toolResponseParts = <<>>]_vars

\* The batch of an aborted send has completed: its response parts are held
\* by a send whose signal is aborted.
C32_Witness ==
    \E t \in SendIds :
        /\ sends[t].pc = "recording"
        /\ sends[t].aborted
        /\ sends[t].toolResponseParts # <<>>

\* C33: a send made while _processing is set is rejected and changes nothing:
\* the processing flag, the cancellation token, the pending authorization,
\* the approved set and every send's state (its queued tool calls and its
\* responseComplete count included) are as before.
C33_BusySendChangesNothing ==
    processing =>
        \A p \in Prompts :
            /\ SendOutcome(p, processing, ready) = "busy"
            /\ ~ENABLED <<Send(p, MaxSends)>>_vars

\* A turn is being processed, holds the cancellation token and waits for a
\* decision with a queued tool call: any send made now is rejected as busy.
C33_Witness ==
    /\ processing
    /\ nSends < MaxSends
    /\ \E t \in SendIds :
          /\ abortController = t
          /\ pendingAuthorization = t
          /\ sends[t].pc = "awaitAuth"
          /\ sends[t].toolCallRequests # <<>>
    /\ \A p \in Prompts : SendOutcome(p, processing, ready) = "busy"

\* C34: while a send is between its Busy guard and its finally block and its
\* signal has not been aborted, the service holds that send's cancellation
\* token and its processing flag is set.
C34_ActiveTurnHoldsToken ==
    \A t \in SendIds :
        (Active(t) /\ ~sends[t].aborted) => (abortController = t /\ processing)

\* C35: authorize() changes the approved set or settles a pending
\* authorization only when the request it answers belongs to a send that is
\* waiting for it and whose signal has not been aborted by stop() or
\* restart().
C35_AuthorizeOnlyForLiveRequest ==
    [][(approvedTools' # approvedTools \/ (pendingAuthorization # 0 /\ pendingAuthorization' = 0)) =>
          /\ pendingAuthorization # 0
          /\ sends[pendingAuthorization].pc = "awaitAuth"
          /\ ~sends[pendingAuthorization].aborted]_vars

\* C36: a step adds to the approved set at most the tool name carried by the
\* requestAuthorization event that is outstanding when the decision arrives.
C36_ApprovesOnlyRequestedName ==
    [][approvedTools' # approvedTools =>
          /\ pendingAuthorization # 0
          /\ LET l == sends[pendingAuthorization] IN
             /\ l.authIdx \in 1..Len(l.toolCallRequests)
             /\ approvedTools' = approvedTools \cup {AwaitedTool(l)}]_vars

\* C37: in the standalone server, whose requestAuthorization listener calls
\* authorize('session', toolName) before emit returns, the decision reaches
\* the request it answers: no send is left waiting on an undecided request,
\* the awaited tool is in the approved set, and when the send resumes the
\* batch goes on to the next call or to the scheduler unless the send was
\* cancelled or the service restarted meanwhile.
C37_SynchronousDecisionNotLost ==
    [][\A t \in SendIds :
          /\ sends'[t].pc = "awaitAuth" =>
                /\ sends'[t].promise = "resolved"
                /\ AwaitedTool(sends'[t]) \in approvedTools'
                /\ pendingAuthorization' = 0
          /\ (sends[t].pc = "awaitAuth" /\ sends'[t] # sends[t]
                /\ ~sends[t].aborted /\ ready) =>
                sends'[t].pc \in {"awaitAuth", "scheduling"}]_vars

\* A batch whose call needed an authorization has reached the scheduler.
C37_Witness ==
    \E t \in SendIds :
        /\ sends[t].pc = "scheduling"
        /\ sends[t].authReqs = 2
        /\ sends[t].dispatched = <<"read", "shell">>
        /\ approvedTools = {"read", "shell"}

\* The lower-cased name of the command that was typed.
TypedName == PromptCommand(PanelPrompt(slash.typed.command, slash.typed.args))

C39_AllFramesDecoded ==
    decDone =>
        /\ decOut.text = TextsOf(decFrames)
        /\ (\E i \in 1..Len(decFrames) : decFrames[i] = CallF) <=> decOut.toolCall = "f"

====
